---- MODULE Spec2Model ----
(***************************************************************************)
(* VedaVision: the presentation controller (App.tsx), the image uploader   *)
(* and camera adapter (components/ImageUploader.tsx), the analysis service *)
(* (services/geminiService.ts) and the result view (PlantDetails.tsx).     *)
(*                                                                         *)
(* Strings are sequences of lexical tokens: "data:" is one token, a run of *)
(* letters/digits such as "image" or "AAAA" is one token, and each         *)
(* punctuation character is one token.  Every handler, together with the   *)
(* render, commit and effects it causes, is one atomic step.  dragActive   *)
(* and isFlashing only style the view and are left out.                    *)
(***************************************************************************)
EXTENDS Integers, Sequences, FiniteSets, TLC

(***************************** bounds **************************************)
\* images acquired (handleImageSelect invocations, file reads and capture
\* timeouts still pending) in one behaviour
MaxCalls == 2
\* getUserMedia sessions (startCamera invocations that reach the device)
MaxOpens == 2
\* length of the free-form strings handed to analyzePlantImage
MaxLen == 3

(***************************** tokens and strings **************************)
Alnum == {"image", "png", "jpeg", "webp", "gif", "svg", "xml", "base64", "AAAA"}

\* [a-zA-Z0-9]
IsAlnum(t) == t \in Alnum

\* [a-zA-Z0-9-.+]
IsSubtypeChar(t) == t \in Alnum \cup {"-", ".", "+"}

Tok == {"data:", "image", "png", "/", ";", ",", "AAAA"}

RECURSIVE SeqsUpTo(_, _)
SeqsUpTo(S, n) ==
    IF n = 0 THEN {<<>>}
    ELSE LET shorter == SeqsUpTo(S, n - 1)
         IN  shorter \cup {Append(s, t) : s \in shorter, t \in S}

\* index of the first "," of s at or after position i; 0 when there is none
RECURSIVE FirstComma(_, _)
FirstComma(s, i) ==
    IF i > Len(s) THEN 0
    ELSE IF s[i] = "," THEN i
    ELSE FirstComma(s, i + 1)

\* String.prototype.split(','): the segments between the commas
RECURSIVE Split(_)
Split(s) ==
    LET k == FirstComma(s, 1)
    IN  IF k = 0 THEN <<s>>
        ELSE <<SubSeq(s, 1, k - 1)>> \o Split(SubSeq(s, k + 1, Len(s)))

\* end of the longest run of tokens satisfying the class that starts at i
\* (i - 1 when s[i] is not in the class)
RECURSIVE RunEnd(_, _, _)
RunEnd(s, i, sub) ==
    IF i > Len(s) THEN i - 1
    ELSE IF (IF sub THEN IsSubtypeChar(s[i]) ELSE IsAlnum(s[i]))
         THEN RunEnd(s, i + 1, sub)
         ELSE i - 1

\* /data:([a-zA-Z0-9]+\/[a-zA-Z0-9-.+]+).*,.*/ tried at position i: the end
\* of capture group 1, or 0 when the pattern does not match there
MatchAt(s, i) ==
    IF i > Len(s) \/ s[i] # "data:" THEN 0
    ELSE LET a == RunEnd(s, i + 1, FALSE)
         IN  IF a < i + 1 \/ a + 1 > Len(s) \/ s[a + 1] # "/" THEN 0
             ELSE LET b == RunEnd(s, a + 2, TRUE)
                  IN  IF b < a + 2 \/ FirstComma(s, b + 1) = 0 THEN 0
                      ELSE b

\* String.prototype.match with the unanchored pattern: the leftmost match
RECURSIVE MatchFrom(_, _)
MatchFrom(s, i) ==
    IF i > Len(s) THEN <<>>
    ELSE IF MatchAt(s, i) # 0 THEN SubSeq(s, i + 1, MatchAt(s, i))
    ELSE MatchFrom(s, i + 1)

DefaultMime == <<"image", "/", "jpeg">>

\* base64Image.split(',')[1] || base64Image
cleanBase64(base64Image) ==
    LET parts == Split(base64Image)
    IN  IF Len(parts) >= 2 /\ parts[2] # <<>> THEN parts[2] ELSE base64Image

\* base64Image.match(...)?.[1] || "image/jpeg"
mimeType(base64Image) ==
    LET m == MatchFrom(base64Image, 1)
    IN  IF m # <<>> THEN m ELSE DefaultMime

(***************************** messages ************************************)
Null == "null"

MsgApiKeyMissing == "API Key is missing. Please configure the environment."
MsgGeneric == "Failed to process the image. Please try again."
MsgAnalyzeFallback == "Failed to analyze the image. Please try again."
MsgNoResponse == "No response from AI"
MsgBadType == "Please upload a valid image (JPEG, PNG, WebP)."
MsgBadSize == "Image size should be less than MAX_IMAGE_SIZE_MB MB."

(***************************** analysis service ****************************)
\* a field the JSON object does not have, and the JSON value null
Absent == "<absent>"
JsonNull == "<null>"

NullResult == [null |-> TRUE]

\* !v for the values a text field takes
Falsy(v) == v \in {Absent, JsonNull, ""}

\* the arrays of methods the service returns
Methods ==
    {<<>>,
     <<[methodName |-> "paste", instructions |-> "grind the leaves"],
       [methodName |-> "decoction", instructions |-> "boil the bark"]>>}

\* PlantAnalysisResult objects: identified, commonName and four of the fields
\* the service fills in next to them, three of them arrays
Records(names) ==
    [identified : BOOLEAN, commonName : names,
     confidenceScore : {20, 92}, medicinalUses : {<<>>, <<"fever", "skin">>},
     preparationMethods : Methods,
     safetyWarnings : {<<>>, <<"pregnancy", "allergy">>}]

\* what the external call does: the promise rejects (transport failure), or
\* it resolves with a response whose text is absent, empty, not JSON, the
\* JSON text null, or the JSON text of an object
Rejects == {[kind |-> "reject", cause |-> "fetch failed"]}

TextOutcomes == {[kind |-> k] : k \in {"absent", "empty", "garbage", "jsonnull"}}

ObjectOutcomes(names) == {[kind |-> "object", data |-> r] : r \in Records(names)}

identifiedUnchecked(data) == data

identifiedFromName(data) == [data EXCEPT !.identified = ~Falsy(data.commonName)]

\* if (data.identified && !data.commonName) data.identified = false
identifiedChecked(data) ==
    IF data.identified /\ Falsy(data.commonName)
    THEN [data EXCEPT !.identified = FALSE]
    ELSE data

Ok(data) == [ok |-> TRUE, data |-> data, message |-> Null]

Throw(message) == [ok |-> FALSE, data |-> NullResult, message |-> message]

catchRethrow(cause) == Throw(cause)

\* catch (error) { console.error(...); throw new Error("Failed to process...") }
catchBlock(cause) == Throw(MsgGeneric)

\* the try block from the point where the awaited call settles
tryBlock(svc) ==
    CASE svc.kind = "reject" -> catchBlock(svc.cause)
      [] svc.kind \in {"absent", "empty"} -> catchBlock(MsgNoResponse)
      [] svc.kind = "garbage" -> catchBlock("Unexpected token in JSON")
      [] svc.kind = "jsonnull" -> catchBlock("Cannot read properties of null")
      [] OTHER -> Ok(identifiedChecked(svc.data))

apiKeyNeverMissing(key) == FALSE

\* if (!processEnvApiKey)
apiKeyMissing(key) == ~key

\* the inlineData part of the request
Request(base64Image) ==
    [mimeType |-> mimeType(base64Image), data |-> cleanBase64(base64Image)]

\* analyzePlantImage up to its await: the requests issued and, when it has
\* thrown already, the rejection
analyzeStart(base64Image, key) ==
    IF apiKeyMissing(key)
    THEN [requests |-> <<>>, settled |-> <<Throw(MsgApiKeyMissing)>>]
    ELSE [requests |-> <<Request(base64Image)>>, settled |-> <<>>]

\* analyzePlantImage as a function of the image, the credential and what the
\* external call does: the requests issued and the settled promise
analyzePlantImage(base64Image, key, svc) ==
    LET a == analyzeStart(base64Image, key)
    IN  [requests |-> a.requests,
         settled |-> IF a.settled # <<>> THEN a.settled[1] ELSE tryBlock(svc)]

(***************************** result view *********************************)
PlantDetailsByName(data) == IF Falsy(data.commonName) THEN "uncertain" ELSE "detail"

\* if (!data.identified) return <Identification Uncertain>; else the detail view
PlantDetails(data) == IF ~data.identified THEN "uncertain" ELSE "detail"

(***************************** image intake ********************************)
MAX_IMAGE_SIZE_MB == 5

SUPPORTED_IMAGE_TYPES ==
    {<<"image", "/", "jpeg">>, <<"image", "/", "png">>, <<"image", "/", "webp">>}

MaxBytes == MAX_IMAGE_SIZE_MB * 1024 * 1024

\* the files the user selects or drops
Files ==
    {[type |-> <<"image", "/", "png">>, size |-> MaxBytes],
     [type |-> <<"image", "/", "png">>, size |-> MaxBytes + 1],
     [type |-> <<"image", "/", "gif">>, size |-> 0]}

\* FileReader.readAsDataURL: "data:" type ";base64," payload
readAsDataURL(file) ==
    <<"data:">> \o file.type \o <<";", "base64", ",">>
        \o (IF file.size = 0 THEN <<>> ELSE <<"AAAA">>)

validateTypeOnly(file) ==
    IF file.type \notin SUPPORTED_IMAGE_TYPES THEN MsgBadType ELSE Null

\* the two checks of processFile: the alert shown, or Null when the file
\* goes on to the FileReader
validate(file) ==
    IF file.type \notin SUPPORTED_IMAGE_TYPES THEN MsgBadType
    ELSE IF file.size > MaxBytes THEN MsgBadSize
    ELSE Null

\* canvas.toDataURL('image/jpeg', 0.85); a canvas of width 0 gives "data:,"
toDataURL(ready) ==
    IF ready
    THEN <<"data:", "image", "/", "jpeg", ";", "base64", ",", "AAAA">>
    ELSE <<"data:", ",">>

NullImage == <<"null">>

ReadImages == {readAsDataURL(f) : f \in {g \in Files : validate(g) = Null}}

(***************************** camera errors *******************************)
MsgInsecure == "Camera access requires a secure connection (HTTPS) or localhost."
MsgUnable == "Unable to access camera."
MsgDenied == "Camera permission was denied. Please allow camera access in your browser settings."
MsgNoDevice == "No camera device found."
MsgInUse == "Camera is currently in use by another application."
MsgDismissed == "Permission request was dismissed. Please tap 'Try Again' and allow access."
MsgDeviceNotFound == "Camera device not found."

\* a rejection of getUserMedia: its name, and whether its lower-cased message
\* contains 'dismissed' / 'device not found'
CamErrors ==
    {[name |-> "NotAllowedError", dismissed |-> FALSE, deviceNotFound |-> FALSE],
     [name |-> "", dismissed |-> FALSE, deviceNotFound |-> FALSE]}

\* every name the mapping tells apart, one it does not and none at all,
\* with every combination of the two message texts
AllCamErrors ==
    [name : {"NotAllowedError", "PermissionDeniedError", "NotFoundError",
             "NotReadableError", "PermissionDismissedError",
             "OverconstrainedError", ""},
     dismissed : BOOLEAN, deviceNotFound : BOOLEAN]

cameraErrorMessageByName(err) ==
    IF err.name \in {"NotAllowedError", "PermissionDeniedError"} THEN MsgDenied
    ELSE IF err.name = "NotFoundError" THEN MsgNoDevice
    ELSE IF err.name = "NotReadableError" THEN MsgInUse
    ELSE IF err.name = "PermissionDismissedError" THEN MsgDismissed
    ELSE MsgUnable

\* the catch block of startCamera
cameraErrorMessage(err) ==
    IF err.name \in {"NotAllowedError", "PermissionDeniedError"} THEN MsgDenied
    ELSE IF err.name = "NotFoundError" THEN MsgNoDevice
    ELSE IF err.name = "NotReadableError" THEN MsgInUse
    ELSE IF err.dismissed \/ err.name = "PermissionDismissedError" THEN MsgDismissed
    ELSE IF err.deviceNotFound THEN MsgDeviceNotFound
    ELSE MsgUnable

(***************************** state ***************************************)
VARIABLES
    \* App
    showSplash, selectedImage, isAnalyzing, result, error, loadingStep,
    \* environment: process.env.API_KEY is set; navigator.mediaDevices exists
    processEnvApiKey, hasMediaDevices,
    \* one call of analyzePlantImage on its own: the image and what the
    \* external call does (or the one error the camera rejects with), and
    \* the requests issued and the settled promise
    probe, answer,
    \* analysis calls awaiting the external service, analyses started,
    \* requests issued, the calls that produced result and error, and the
    \* parsed response the held result was made from
    calls, started, netCalls, resultOf, errorOf, received,
    \* file reads in progress, per data URL
    reads,
    \* ImageUploader
    isCameraOpen, stream, cameraError,
    \* the video element has a frame (videoWidth > 0)
    videoReady,
    \* getUserMedia requests pending, startCamera invocations that reached the
    \* device, streams with running tracks
    camReqs, opens, running,
    \* capture timeouts pending, per stream held by their stopCamera closure
    timers,
    \* the alert() raised by the handler that ran last
    alert

appVars == <<showSplash, selectedImage, isAnalyzing, result, error, loadingStep>>

envVars == <<processEnvApiKey, hasMediaDevices, probe, answer>>

callVars == <<calls, started, netCalls, resultOf, errorOf, received>>

uploaderVars == <<isCameraOpen, stream, cameraError, videoReady>>

deviceVars == <<camReqs, opens, running>>

vars ==
    <<appVars, envVars, callVars, reads, uploaderVars, deviceVars, timers,
      alert>>

NumLoadingStages == 4

\* the service outcomes drawn when a call settles
Outcomes == Rejects \cup TextOutcomes \cup
    {o \in ObjectOutcomes({Absent, "", "Neem"}) :
        /\ o.data.confidenceScore = (IF o.data.identified THEN 92 ELSE 20)
        /\ o.data.medicinalUses = (IF o.data.commonName = "Neem"
                                   THEN <<"fever", "skin">> ELSE <<>>)
        /\ o.data.preparationMethods # <<>> <=> o.data.medicinalUses # <<>>
        /\ o.data.safetyWarnings # <<>> <=> o.data.medicinalUses # <<>>}

MountedUnderSplash == selectedImage = NullImage

\* <ImageUploader/> is rendered: {!selectedImage && ...} below the splash return
Mounted == ~showSplash /\ selectedImage = NullImage

RECURSIVE SumOver(_, _)
SumOver(f, T) ==
    IF T = {} THEN 0
    ELSE LET x == CHOOSE y \in T : TRUE IN f[x] + SumOver(f, T \ {x})

PendingTimers == SumOver(timers, DOMAIN timers)

PendingReads == SumOver(reads, DOMAIN reads)

\* room for one more image source within MaxCalls analyses
RoomForCall == started + PendingReads + PendingTimers < MaxCalls

NoProbe == [image |-> NullImage, svc |-> [kind |-> "none"]]

NoAnswer == [requests |-> <<>>, settled |-> Throw("pending")]

InitApp ==
    /\ showSplash = TRUE
    /\ selectedImage = NullImage
    /\ isAnalyzing = FALSE
    /\ result = NullResult
    /\ error = Null
    /\ loadingStep = 0
    /\ calls = {}
    /\ started = 0
    /\ netCalls = 0
    /\ resultOf = 0
    /\ errorOf = 0
    /\ received = NullResult
    /\ reads = [i \in ReadImages |-> 0]
    /\ isCameraOpen = FALSE
    /\ stream = 0
    /\ cameraError = Null
    /\ videoReady = FALSE
    /\ camReqs = {}
    /\ opens = 0
    /\ running = {}
    /\ timers = [s \in 1..MaxOpens |-> 0]
    /\ alert = Null

Init ==
    /\ InitApp
    /\ processEnvApiKey \in BOOLEAN
    /\ hasMediaDevices \in BOOLEAN
    /\ probe = NoProbe
    /\ answer = NoAnswer

(***************************** App *****************************************)
\* setError(err.message || "Failed to analyze the image. Please try again.")
errMessage(message) == IF message # "" THEN message ELSE MsgAnalyzeFallback

\* the splash effect: setTimeout(() => setShowSplash(false), 2500)
SplashTimeout ==
    /\ showSplash
    /\ showSplash' = FALSE
    /\ alert' = Null
    /\ UNCHANGED <<selectedImage, isAnalyzing, result, error, loadingStep>>
    /\ UNCHANGED <<envVars, callVars, reads, uploaderVars, deviceVars, timers>>

TickUncleared ==
    /\ ~showSplash
    /\ loadingStep' = (loadingStep + 1) % NumLoadingStages
    /\ alert' = Null
    /\ UNCHANGED <<showSplash, selectedImage, isAnalyzing, result, error>>
    /\ UNCHANGED <<envVars, callVars, reads, uploaderVars, deviceVars, timers>>

\* the loading-step effect's interval, which exists while isAnalyzing
Tick ==
    /\ isAnalyzing
    /\ loadingStep' = (loadingStep + 1) % NumLoadingStages
    /\ alert' = Null
    /\ UNCHANGED <<showSplash, selectedImage, isAnalyzing, result, error>>
    /\ UNCHANGED <<envVars, callVars, reads, uploaderVars, deviceVars, timers>>

\* handleImageSelect up to its await and, when analyzePlantImage has thrown
\* by then, through catch and finally; with the loading-step effect, which
\* runs when isAnalyzing changes to true
handleImageSelect(base64Image) ==
    LET a == analyzeStart(base64Image, processEnvApiKey)
        id == started + 1
    IN  /\ selectedImage' = base64Image
        /\ result' = NullResult
        /\ resultOf' = 0
        /\ received' = NullResult
        /\ started' = id
        /\ netCalls' = netCalls + Len(a.requests)
        /\ showSplash' = showSplash
        /\ IF a.settled # <<>>
           THEN /\ error' = errMessage(a.settled[1].message)
                /\ errorOf' = id
                /\ isAnalyzing' = FALSE
                /\ calls' = calls
                /\ loadingStep' = loadingStep
           ELSE /\ error' = Null
                /\ errorOf' = 0
                /\ isAnalyzing' = TRUE
                /\ calls' = calls \cup {[id |-> id, image |-> base64Image,
                                         request |-> a.requests[1]]}
                /\ loadingStep' = IF isAnalyzing THEN loadingStep ELSE 0

\* <ImageUploader/> leaves the tree (selectedImage is set): the stream effect's
\* cleanup stops the tracks of the stream held in state, and the tracks in
\* `stopped` were stopped by the handler; the component's state is gone, its
\* pending getUserMedia continuations now set state of an unmounted component,
\* and its capture timeouts find videoRef.current null
unmountUploader(stopped) ==
    /\ isCameraOpen' = FALSE
    /\ stream' = 0
    /\ cameraError' = Null
    /\ videoReady' = FALSE
    /\ running' = running \ ({stream} \cup stopped)
    /\ camReqs' = {[r EXCEPT !.alive = FALSE] : r \in camReqs}
    /\ timers' = [s \in DOMAIN timers |-> 0]
    /\ UNCHANGED opens

\* the rest of handleImageSelect for call c once the service has done svc:
\* setResult or setError, then finally setIsAnalyzing(false)
CallSettles(c, svc) ==
    LET out == tryBlock(svc)
    IN  /\ c \in calls
        /\ calls' = calls \ {c}
        /\ IF out.ok
           THEN /\ result' = out.data
                /\ resultOf' = c.id
                /\ received' = svc.data
                /\ UNCHANGED <<error, errorOf>>
           ELSE /\ error' = errMessage(out.message)
                /\ errorOf' = c.id
                /\ UNCHANGED <<result, resultOf, received>>
        /\ isAnalyzing' = FALSE
        /\ alert' = Null
        /\ UNCHANGED <<showSplash, selectedImage, loadingStep, started, netCalls>>
        /\ UNCHANGED <<envVars, reads, uploaderVars, deviceVars, timers>>

\* resetApp, from the header, the error view's Try Again or Scan New Plant
resetApp ==
    /\ ~showSplash
    /\ selectedImage' = NullImage
    /\ result' = NullResult
    /\ resultOf' = 0
    /\ received' = NullResult
    /\ error' = Null
    /\ errorOf' = 0
    /\ alert' = Null
    /\ UNCHANGED <<showSplash, isAnalyzing, loadingStep>>
    /\ UNCHANGED <<calls, started, netCalls>>
    /\ UNCHANGED <<envVars, reads, uploaderVars, deviceVars, timers>>

(***************************** ImageUploader: files ************************)
\* handleChange / handleDrop -> processFile(file), in the drop-zone view
processFile(file) ==
    /\ Mounted /\ ~isCameraOpen
    /\ IF validate(file) # Null
       THEN reads' = reads
       ELSE /\ RoomForCall
            /\ reads' = [reads EXCEPT ![readAsDataURL(file)] = @ + 1]
    /\ alert' = validate(file)
    /\ UNCHANGED <<appVars, envVars, callVars, uploaderVars, deviceVars, timers>>

\* reader.onload: onImageSelect(e.target.result)
FileReadDone(url) ==
    /\ reads[url] > 0
    /\ reads' = [reads EXCEPT ![url] = @ - 1]
    /\ handleImageSelect(url)
    /\ unmountUploader({})
    /\ alert' = Null
    /\ UNCHANGED envVars

(***************************** ImageUploader: camera ***********************)
\* startCamera, from Open Camera (drop-zone view) or Try Again (error view)
startCamera ==
    /\ Mounted
    /\ ~isCameraOpen \/ cameraError # Null
    /\ IF ~hasMediaDevices
       THEN /\ cameraError' = MsgInsecure
            /\ UNCHANGED <<camReqs, opens>>
       ELSE /\ opens < MaxOpens
            /\ cameraError' = Null
            /\ camReqs' = camReqs \cup
                   {[id |-> opens + 1, stage |-> "ideal", alive |-> TRUE]}
            /\ opens' = opens + 1
    /\ isCameraOpen' = TRUE
    /\ alert' = Null
    /\ UNCHANGED <<stream, videoReady, running>>
    /\ UNCHANGED <<appVars, envVars, callVars, reads, timers>>

\* a getUserMedia request of startCamera resolves: setStream(mediaStream);
\* the stream effect's cleanup stops the stream held before
CamGrant(r) ==
    /\ r \in camReqs
    /\ camReqs' = camReqs \ {r}
    /\ IF r.alive
       THEN /\ stream' = r.id
            /\ running' = (running \ {stream}) \cup {r.id}
       ELSE /\ stream' = stream
            /\ running' = running \cup {r.id}
    /\ alert' = Null
    /\ UNCHANGED <<isCameraOpen, cameraError, videoReady, opens>>
    /\ UNCHANGED <<appVars, envVars, callVars, reads, timers>>

fallbackNone(r) == {}

\* the inner catch of startCamera: when the request with the ideal
\* constraints rejects, getUserMedia({ video: true }); a rejection of that
\* one goes to the outer catch
fallbackRequests(r) ==
    IF r.stage = "ideal" THEN {[r EXCEPT !.stage = "basic"]} ELSE {}

\* a getUserMedia request of startCamera rejects with err: the inner catch
\* issues the basic request, the outer catch sets cameraError
CamDeny(r, err) ==
    /\ r \in camReqs
    /\ camReqs' = (camReqs \ {r}) \cup fallbackRequests(r)
    /\ IF fallbackRequests(r) # {}
       THEN UNCHANGED <<cameraError, videoReady>>
       ELSE /\ cameraError' = IF r.alive THEN cameraErrorMessage(err) ELSE cameraError
            /\ videoReady' = IF r.alive THEN FALSE ELSE videoReady
    /\ alert' = Null
    /\ UNCHANGED <<isCameraOpen, stream, opens, running>>
    /\ UNCHANGED <<appVars, envVars, callVars, reads, timers>>

\* the <video> element gets its first frame from the attached stream
VideoLoaded ==
    /\ Mounted /\ isCameraOpen /\ cameraError = Null /\ stream # 0
    /\ ~videoReady
    /\ videoReady' = TRUE
    /\ alert' = Null
    /\ UNCHANGED <<isCameraOpen, stream, cameraError>>
    /\ UNCHANGED <<appVars, envVars, callVars, reads, deviceVars, timers>>

\* stopCamera, from Cancel (error view) or Close Camera (live view)
stopCamera ==
    /\ Mounted /\ isCameraOpen
    /\ cameraError # Null \/ stream # 0
    /\ running' = running \ {stream}
    /\ stream' = 0
    /\ isCameraOpen' = FALSE
    /\ cameraError' = Null
    /\ videoReady' = FALSE
    /\ alert' = Null
    /\ UNCHANGED <<camReqs, opens>>
    /\ UNCHANGED <<appVars, envVars, callVars, reads, timers>>

\* capturePhoto, from Take Photo (live view): starts the 150 ms timeout whose
\* callback holds the stopCamera of this render, and so this stream
capturePhoto ==
    /\ Mounted /\ isCameraOpen /\ cameraError = Null /\ stream # 0
    /\ IF videoReady
       THEN /\ RoomForCall
            /\ timers' = [timers EXCEPT ![stream] = @ + 1]
       ELSE UNCHANGED timers
    /\ alert' = Null
    /\ UNCHANGED <<isCameraOpen, stream, cameraError, videoReady>>
    /\ UNCHANGED <<appVars, envVars, callVars, reads, deviceVars>>

\* the timeout callback of capturePhoto, holding stream s: returns when the
\* video element is gone, else draws the frame, stopCamera(), onImageSelect
CaptureTimeout(s) ==
    /\ timers[s] > 0
    /\ IF ~(Mounted /\ isCameraOpen /\ cameraError = Null)
       THEN /\ timers' = [timers EXCEPT ![s] = @ - 1]
            /\ UNCHANGED <<appVars, callVars, uploaderVars, deviceVars>>
       ELSE /\ handleImageSelect(toDataURL(videoReady))
            /\ unmountUploader({s})
    /\ alert' = Null
    /\ UNCHANGED <<envVars, reads>>

(***************************** specification *******************************)
Next ==
    \/ SplashTimeout
    \/ Tick
    \/ \E c \in calls : \E svc \in Outcomes : CallSettles(c, svc)
    \/ resetApp
    \/ \E file \in Files : processFile(file)
    \/ \E url \in ReadImages : FileReadDone(url)
    \/ startCamera
    \/ \E r \in camReqs : CamGrant(r)
    \/ \E r \in camReqs : \E err \in CamErrors : CamDeny(r, err)
    \/ VideoLoaded
    \/ stopCamera
    \/ capturePhoto
    \/ \E s \in DOMAIN timers : CaptureTimeout(s)

Spec == Init /\ [][Next]_vars

\* the splash timeout is set when App mounts and cleared only when App
\* unmounts, which it never does: once due it runs
SpecFair == Spec /\ WF_vars(SplashTimeout)

(***************************** analyzePlantImage on its own ****************)
\* the images: every short token string, what the FileReader gives for an
\* accepted file (one of them empty), what the canvas gives, and data URLs
\* with and without a media type, parameters and payload
Payloads == {<<>>, <<"AAAA">>}

Inputs ==
    SeqsUpTo(Tok, MaxLen)
    \cup {readAsDataURL([type |-> t, size |-> n]) :
              t \in SUPPORTED_IMAGE_TYPES, n \in {0, MaxBytes}}
    \cup {toDataURL(r) : r \in BOOLEAN}
    \cup {<<"data:">> \o t \o q \o <<",">> \o pl :
              t \in {<<>>, <<"image">>, <<"image", "/", "png">>,
                     <<"image", "/", "svg", "+", "xml">>},
              q \in {<<>>, <<";", "base64">>},
              pl \in Payloads}

AllOutcomes ==
    Rejects \cup TextOutcomes \cup ObjectOutcomes({Absent, JsonNull, "", "Neem"})

SampleImage == <<"data:", "image", "/", "png", ";", "base64", ",", "AAAA">>

SampleOutcome == [kind |-> "absent"]

Probes ==
    {[image |-> i, svc |-> SampleOutcome] : i \in Inputs}
    \cup {[image |-> SampleImage, svc |-> o] : o \in AllOutcomes}

InitAnalyze ==
    /\ InitApp
    /\ processEnvApiKey \in BOOLEAN
    /\ hasMediaDevices = TRUE
    /\ probe \in Probes
    /\ answer = NoAnswer

AnalyzeCall ==
    /\ answer = NoAnswer
    /\ answer' = analyzePlantImage(probe.image, processEnvApiKey, probe.svc)
    /\ UNCHANGED <<appVars, callVars, reads, uploaderVars, deviceVars, timers, alert>>
    /\ UNCHANGED <<processEnvApiKey, hasMediaDevices, probe>>

NextAnalyze == AnalyzeCall

SpecAnalyze == InitAnalyze /\ [][NextAnalyze]_vars

(***************************** the camera with one fault *******************)
\* the device rejects every request with the one error drawn at the start
CamProbes ==
    {[image |-> NullImage, svc |-> [kind |-> "camera", err |-> e]] :
        e \in AllCamErrors}

InitCamera ==
    /\ InitApp
    /\ processEnvApiKey = TRUE
    /\ hasMediaDevices \in BOOLEAN
    /\ probe \in CamProbes
    /\ answer = NoAnswer

NextCamera ==
    \/ SplashTimeout
    \/ startCamera
    \/ \E r \in camReqs : CamDeny(r, probe.svc.err)
    \/ stopCamera

SpecCamera == InitCamera /\ [][NextCamera]_vars

(***************************** what App renders ****************************)
\* {!isAnalyzing && result && <PlantDetails data={result} />}, inside
\* {selectedImage && ...}, below if (showSplash) return <SplashScreen />
ResultView ==
    IF ~showSplash /\ selectedImage # NullImage /\ ~isAnalyzing
       /\ result # NullResult
    THEN PlantDetails(result)
    ELSE "none"

\* {error && <Analysis Error ... Try Again>}
ErrorView == ~showSplash /\ selectedImage # NullImage /\ error # Null

\* {!isAnalyzing && <Scan New Plant>}, inside {selectedImage && ...}
NewScanShown == ~showSplash /\ selectedImage # NullImage /\ ~isAnalyzing

(***************************** claims **************************************)
ClaimsIdentified(data) == data.identified /\ Falsy(data.commonName)

\* C1: a response with identified = true and an absent or empty commonName is
\* returned by analyzePlantImage with identified = false, for every call
\* that is outstanding and every such response; and the controller never holds
\* a result with identified = true and an absent or empty commonName.
C1_IdentifiedNeedsName ==
    /\ result # NullResult => ~ClaimsIdentified(result)
    /\ received # NullResult /\ ClaimsIdentified(received) => ~result.identified
    /\ \A c \in calls : \A svc \in Outcomes :
          svc.kind = "object" /\ ClaimsIdentified(svc.data) =>
              LET out == analyzePlantImage(c.image, processEnvApiKey, svc).settled
              IN  out.ok /\ ~out.data.identified

\* C1 witness: the service said identified = true without a name, and the
\* result held says identified = false.
C1_Witness ==
    /\ result # NullResult /\ received # NullResult
    /\ ClaimsIdentified(received)
    /\ ~result.identified

\* C2: a result with identified = false that is rendered is rendered as the
\* "Identification Uncertain" view, whatever its other fields hold, and the
\* detail view is rendered only for a result with identified = true.
C2_UncertainView ==
    ResultView # "none" =>
        /\ ~result.identified => ResultView = "uncertain"
        /\ ResultView = "detail" => result.identified

\* C2 witness: a rendered result with identified = false whose name and uses
\* are populated, shown as the uncertain view.
C2_Witness ==
    /\ ResultView = "uncertain"
    /\ result.commonName = "Neem"
    /\ result.medicinalUses # <<>>

\* a file whose media type is in the allow-list and whose size does not
\* exceed the maximum
Acceptable(file) ==
    file.type \in SUPPORTED_IMAGE_TYPES /\ file.size <= MAX_IMAGE_SIZE_MB * 1024 * 1024

KeyCalls == IF processEnvApiKey THEN 1 ELSE 0

HasPrefix(s) == Len(s) >= 1 /\ s[1] = "data:" /\ FirstComma(s, 1) # 0

Header(s) == SubSeq(s, 2, FirstComma(s, 1) - 1)

Payload(s) == SubSeq(s, FirstComma(s, 1) + 1, Len(s))

\* the end of <type>/<subtype> at the start of header h, 0 when h does not
\* start with one
MediaEnd(h) ==
    LET a == RunEnd(h, 1, FALSE)
        b == RunEnd(h, a + 2, TRUE)
    IN  IF a >= 1 /\ a + 1 <= Len(h) /\ h[a + 1] = "/" /\ b >= a + 2
        THEN b ELSE 0

\* data:<type>/<subtype>[;params],<payload>
WellFormed(s) ==
    /\ HasPrefix(s)
    /\ LET h == Header(s)
           b == MediaEnd(h)
       IN  b # 0 /\ (b = Len(h) \/ h[b + 1] = ";")

Media(s) == SubSeq(Header(s), 1, MediaEnd(Header(s)))

\* a string with no comma in it, as a raw base64 string is
NoComma(s) == FirstComma(s, 1) = 0

\* C4 as claimed: for a string data:<type>/<subtype>[;params],<payload> the
\* request carries exactly <payload> and <type>/<subtype>; for a raw base64
\* string without a prefix it carries the whole string and image/jpeg; for a
\* prefix whose media type is absent or unparsable the media type is
\* image/jpeg.
C4_PrefixStripped ==
    answer # NoAnswer /\ processEnvApiKey =>
        LET s == probe.image
            req == answer.requests[1]
        IN  /\ WellFormed(s) =>
                req.data = Payload(s) /\ req.mimeType = Media(s)
            /\ NoComma(s) =>
                req.data = s /\ req.mimeType = DefaultMime
            /\ HasPrefix(s) /\ ~WellFormed(s) =>
                req.mimeType = DefaultMime

\* the camera view with the video element: opening or live
CameraViewShown == Mounted /\ isCameraOpen /\ cameraError = Null

\* C5 as claimed: once the camera view has been left (committed capture,
\* cancel, camera error, uploader unmounted), no stream granted to startCamera
\* has a running track.
C5_CameraReleased == ~CameraViewShown => running = {}

\* C6: without the credential no request is ever issued to the external
\* service and no call is outstanding; every analysis ends at once in the
\* error state: the configuration message shown, no result, not analyzing.
C6_MissingKey ==
    ~processEnvApiKey =>
        /\ netCalls = 0 /\ calls = {}
        /\ result = NullResult /\ ~isAnalyzing
        /\ error \in {Null, MsgApiKeyMissing}
        /\ selectedImage # NullImage => error = MsgApiKeyMissing /\ ErrorView
        /\ started > 0 /\ selectedImage = NullImage => error = Null

\* C6 witness: an image was selected without the credential and the
\* configuration message is shown.
C6_Witness ==
    /\ ~processEnvApiKey /\ started > 0
    /\ ErrorView /\ error = MsgApiKeyMissing

\* C7: with the credential, whatever failure the external call ends in
\* (rejection, absent or empty text, text that does not parse), every
\* outstanding call fails with the one generic message and no record; the
\* error held is never anything but that message, and the call that set it
\* set no result.
C7_UniformFailure ==
    processEnvApiKey =>
        /\ error \in {Null, MsgGeneric}
        /\ errorOf # 0 => resultOf # errorOf
        /\ \A c \in calls : \A svc \in Outcomes :
              svc.kind # "object" =>
                  analyzePlantImage(c.image, processEnvApiKey, svc).settled
                      = [ok |-> FALSE, data |-> NullResult, message |-> MsgGeneric]

\* C7 witness: a call failed after the request was issued and the generic
\* message is shown.
C7_Witness ==
    /\ processEnvApiKey /\ netCalls > 0
    /\ errorOf # 0 /\ ErrorView /\ error = MsgGeneric

\* C8 as claimed: the step in which handleImageSelect starts a request
\* clears result and error and enters analyzing, and while the request
\* started by the latest handleImageSelect is outstanding no result and no
\* error of an earlier request is held.
C8_NoStaleData ==
    [][/\ started' # started /\ processEnvApiKey =>
              result' = NullResult /\ error' = Null /\ isAnalyzing'
       /\ \A c \in calls' : c.id = started' =>
              result' = NullResult /\ error' = Null
      ]_vars

\* C9 as claimed: a failing call leaves the controller in the error state
\* (error set, no result, not analyzing), and the retry returns it to idle
\* (no image, no result, no error) without issuing a request.
C9_ErrorThenRetry ==
    [][/\ \A c \in calls : \A svc \in Outcomes :
              CallSettles(c, svc) /\ ~tryBlock(svc).ok =>
                  error' # Null /\ result' = NullResult /\ ~isAnalyzing'
       /\ ErrorView /\ resetApp =>
              /\ selectedImage' = NullImage /\ result' = NullResult
              /\ error' = Null /\ netCalls' = netCalls
      ]_vars

\* C10 as claimed: resetApp, from whichever state, leaves no image, no
\* result, no error and the controller not analyzing; and while no image is
\* selected no result or error appears.
C10_ResetToIdle ==
    [][/\ resetApp =>
              /\ selectedImage' = NullImage /\ result' = NullResult
              /\ error' = Null /\ ~isAnalyzing'
       /\ selectedImage = NullImage /\ selectedImage' = NullImage =>
              result' = NullResult /\ error' = Null
      ]_vars

\* C11 as claimed: at most one analysis call is outstanding, and while a call
\* is outstanding the controller is analyzing.
C11_SingleCall ==
    /\ Cardinality(calls) <= 1
    /\ calls # {} => isAnalyzing

\* C12 as claimed: result and error are never both held, and the result view
\* and the error view are never rendered together.
C12_ResultXorError ==
    /\ ~(result # NullResult /\ error # Null)
    /\ ~(ResultView # "none" /\ ErrorView)

\* idle: no image, no result, no error, not analyzing
Idle ==
    /\ selectedImage = NullImage /\ ~isAnalyzing
    /\ result = NullResult /\ error = Null

\* nothing has been acquired or requested yet
Untouched ==
    /\ started = 0 /\ netCalls = 0 /\ calls = {}
    /\ PendingReads = 0 /\ PendingTimers = 0
    /\ ~isCameraOpen /\ opens = 0 /\ camReqs = {}

\* C13: while the splash is shown the controller is as loaded, nothing has
\* been acquired or started and the splash timeout is the one thing that can
\* happen; the timeout fires, whatever else happens, and leaves the controller
\* idle; once showSplash is false it stays false.
C13_Splash ==
    /\ [](showSplash => Idle /\ Untouched /\ ENABLED SplashTimeout)
    /\ [][showSplash => (SplashTimeout /\ Idle' /\ Untouched')]_vars
    /\ [][~showSplash => ~showSplash']_vars
    /\ <>(~showSplash)

\* C13 witness: the splash is over, the controller idle, and a first file is
\* being read.
C13_Witness ==
    /\ ~showSplash /\ Idle
    /\ started = 0 /\ PendingReads = 1

\* C14 as claimed: whenever a call settles the controller is not analyzing
\* afterwards; on success result holds the returned record and error is
\* null, on failure error holds a message and result is null; and a failure
\* raised before the request (no credential) ends in the same way, inside
\* handleImageSelect.
C14_SettleTerminal ==
    [][/\ \A c \in calls : \A svc \in Outcomes :
              CallSettles(c, svc) =>
                  /\ ~isAnalyzing'
                  /\ IF tryBlock(svc).ok
                     THEN result' = tryBlock(svc).data /\ error' = Null
                     ELSE error' # Null /\ result' = NullResult
       /\ started' # started /\ ~processEnvApiKey =>
              ~isAnalyzing' /\ error' # Null /\ result' = NullResult
      ]_vars

\* the state of the camera adapter as rendered: the drop zone (closed), the
\* loader (opening), the viewfinder (live) or the camera error view (error)
CameraState ==
    IF ~isCameraOpen THEN "closed"
    ELSE IF cameraError # Null THEN "error"
    ELSE IF stream # 0 THEN "live"
    ELSE "opening"

\* C15 as claimed: the adapter's state changes only along closed -> opening
\* (open), opening -> live (a stream is granted), opening -> error (access
\* fails), live -> closed (cancel, or a captured frame is forwarded),
\* error -> opening (retry) and error -> closed (cancel).  An open that
\* fails at once for want of the camera API is taken as opening and failing
\* in one step.
C15_CameraMachine ==
    [][CameraState' # CameraState =>
          \/ /\ CameraState = "closed" /\ CameraState' = "opening"
             /\ startCamera
          \/ /\ CameraState = "closed" /\ CameraState' = "error"
             /\ startCamera /\ ~hasMediaDevices
          \/ /\ CameraState = "opening" /\ CameraState' = "live"
             /\ \E r \in camReqs : CamGrant(r)
          \/ /\ CameraState = "opening" /\ CameraState' = "error"
             /\ \E r \in camReqs : \E err \in CamErrors : CamDeny(r, err)
          \/ /\ CameraState = "live" /\ CameraState' = "closed"
             /\ \/ stopCamera
                \/ /\ \E s \in DOMAIN timers : CaptureTimeout(s)
                   /\ started' = started + 1
          \/ /\ CameraState = "error" /\ CameraState' = "opening"
             /\ startCamera
          \/ /\ CameraState = "error" /\ CameraState' = "closed"
             /\ stopCamera
      ]_vars

Kinds(err) ==
    LET named ==
            (IF err.name \in {"NotAllowedError", "PermissionDeniedError"}
             THEN {"permission-denied"} ELSE {})
            \cup (IF err.name = "NotFoundError" \/ err.deviceNotFound
                  THEN {"device-not-found"} ELSE {})
            \cup (IF err.name = "NotReadableError"
                  THEN {"device-busy"} ELSE {})
            \cup (IF err.name = "PermissionDismissedError" \/ err.dismissed
                  THEN {"permission-dismissed"} ELSE {})
    IN  IF named = {} THEN {"generic-unavailable"} ELSE named

\* the rejections of kind k and of no other kind
PureOf(k) == {e \in AllCamErrors : Kinds(e) = {k}}

\* the message surfaced is shown for no rejection of another kind, and is not
\* the insecure-context message
KindsApart ==
    hasMediaDevices /\ CameraState = "error" =>
        /\ cameraError # MsgInsecure
        /\ \A e \in AllCamErrors :
              Kinds(e) \cap Kinds(probe.svc.err) = {} =>
                  cameraErrorMessage(e) # cameraError

\* without the camera API the insecure-context message is surfaced and no
\* request reaches the device
InsecureSurfaced ==
    ~hasMediaDevices =>
        /\ opens = 0 /\ camReqs = {}
        /\ CameraState = "error" => cameraError = MsgInsecure

\* C17 as claimed: every kind has one message of its own: the message shown
\* for a rejection is the message of one of its kinds, which is what every
\* rejection of that kind alone shows; no two kinds share a message; the
\* insecure-context message is surfaced without a device request.
C17_OwnMessage ==
    /\ InsecureSurfaced
    /\ KindsApart
    /\ hasMediaDevices /\ CameraState = "error" =>
          \E k \in Kinds(probe.svc.err) :
              \A e \in PureOf(k) : cameraErrorMessage(e) = cameraError

\* the message by the first test that applies, the device-not-found kind
\* having one message for the name and one for the text
MessageInOrder(err) ==
    CASE err.name \in {"NotAllowedError", "PermissionDeniedError"} -> MsgDenied
      [] err.name = "NotFoundError" -> MsgNoDevice
      [] err.name = "NotReadableError" -> MsgInUse
      [] err.name \notin {"NotAllowedError", "PermissionDeniedError",
                          "NotFoundError", "NotReadableError"}
         /\ (err.dismissed \/ err.name = "PermissionDismissedError")
           -> MsgDismissed
      [] OTHER -> IF err.deviceNotFound THEN MsgDeviceNotFound ELSE MsgUnable

\* C17 amended: seven messages; a rejection shows the message of the first
\* that applies of: name NotAllowedError or PermissionDeniedError; name
\* NotFoundError ("No camera device found."); name NotReadableError; text
\* containing 'dismissed' or name PermissionDismissedError; text containing
\* 'device not found' ("Camera device not found."); anything else.  No two
\* kinds share a message and the insecure-context message is surfaced
\* without a device request.
C17_MessageInOrder ==
    /\ InsecureSurfaced
    /\ KindsApart
    /\ hasMediaDevices /\ CameraState = "error" =>
          cameraError = MessageInOrder(probe.svc.err)

\* C17 witness: a rejection known only by its text 'device not found' is
\* surfaced with the second device-not-found message.
C17_Witness ==
    /\ CameraState = "error"
    /\ probe.svc.err.name = "" /\ probe.svc.err.deviceNotFound
    /\ cameraError = MsgDeviceNotFound

\* C18 as claimed: a capture trigger without a video frame changes nothing;
\* a frame is forwarded only by the capture of the live session that
\* triggered it, from a video with a frame: then one still image is
\* forwarded, that session's stream is stopped, the adapter is closed and
\* no further capture of the session is pending; a capture whose session
\* was cancelled forwards nothing and changes nothing of the adapter.
C18_Capture ==
    [][/\ capturePhoto /\ ~videoReady => UNCHANGED <<timers, appVars, callVars>>
       /\ \A s \in DOMAIN timers : CaptureTimeout(s) =>
              IF CameraState = "live" /\ stream = s /\ videoReady
              THEN /\ started' = started + 1
                   /\ selectedImage' = toDataURL(TRUE)
                   /\ s \notin running'
                   /\ CameraState' = "closed"
                   /\ PendingTimers' = 0
              ELSE /\ UNCHANGED <<appVars, callVars, uploaderVars, deviceVars>>
                   /\ PendingTimers' = PendingTimers - 1
      ]_vars

\* C19 as claimed: at most one stream granted to the application has running
\* tracks.
C19_OneStream == Cardinality(running) <= 1

\* C20 as claimed: a step that starts an analysis leaves loadingStep at 0;
\* any other change of loadingStep happens while analyzing, is an advance by
\* one position with the last wrapping to the first, and changes nothing of
\* the image, the result, the error, isAnalyzing or the calls.
C20_LoadingCycle ==
    [][/\ started' # started /\ isAnalyzing' => loadingStep' = 0
       /\ started' = started /\ loadingStep' # loadingStep =>
              /\ isAnalyzing
              /\ loadingStep' = (loadingStep + 1) % NumLoadingStages
              /\ UNCHANGED <<selectedImage, result, error, isAnalyzing>>
              /\ UNCHANGED callVars
      ]_vars

\* C21 as claimed: a result or an error held with an image selected was
\* produced by the call started for that image, the one started last.
C21_ResultOfImage ==
    selectedImage # NullImage =>
        /\ result # NullResult => resultOf = started
        /\ error # Null => errorOf = started

\* C22 as claimed: isAnalyzing is true exactly when a call is outstanding, so
\* neither the result view nor the Scan New Plant control is shown while a
\* call is outstanding.
C22_AnalyzingIffOutstanding ==
    /\ isAnalyzing <=> calls # {}
    /\ calls # {} => ResultView = "none" /\ ~NewScanShown

\* the fields of a parsed response other than identified
OtherFields(data) ==
    [f \in DOMAIN data \ {"identified"} |-> data[f]]

\* C23: a call whose response parses to an object resolves with that object:
\* identified is as received unless it was true with an absent or empty
\* commonName, it is never true when received false, and every other field,
\* the arrays in the service's order, is as received.
C23_OnlyCorrection ==
    answer # NoAnswer /\ processEnvApiKey /\ probe.svc.kind = "object" =>
        LET got == probe.svc.data
            out == answer.settled
        IN  /\ out.ok
            /\ DOMAIN out.data = DOMAIN got
            /\ OtherFields(out.data) = OtherFields(got)
            /\ ~got.identified \/ ~Falsy(got.commonName) =>
                  out.data.identified = got.identified
            /\ out.data.identified => got.identified

\* C23 witness: a response with identified = false, a name and populated
\* arrays was returned as received.
C23_Witness ==
    /\ answer # NoAnswer /\ processEnvApiKey /\ probe.svc.kind = "object"
    /\ ~probe.svc.data.identified /\ probe.svc.data.commonName = "Neem"
    /\ probe.svc.data.preparationMethods # <<>>
    /\ probe.svc.data.safetyWarnings # <<>>
    /\ answer.settled.ok /\ answer.settled.data = probe.svc.data

\* C24: loadingStep is always an index into loadingStages, and it changes
\* only in a step taken while analyzing or entering analyzing: nothing
\* advances it once analyzing has been left.
C24_LoadingIndex ==
    /\ [](loadingStep \in 0..(NumLoadingStages - 1))
    /\ [][loadingStep' # loadingStep => isAnalyzing \/ isAnalyzing']_vars
    /\ [][~isAnalyzing /\ loadingStep' # loadingStep => loadingStep' = 0]_vars

\* C24 witness: the analysis has ended with the last phrase showing, and the
\* index stays there.
C24_Witness ==
    /\ ~isAnalyzing /\ calls = {} /\ started > 0
    /\ loadingStep = NumLoadingStages - 1

====
